---------------------------- MODULE Spec2Model ----------------------------
(***************************************************************************)
(* Model of pyeem.instruments.agilent.cary_eclipse.CaryEclipse: the three  *)
(* loaders load_eem, load_absorbance and load_water_raman, each a pure     *)
(* function of one exported csv file.                                      *)
(*                                                                         *)
(* A cell of a table is a record [k, v]: k = "num" (a number v), "nan" (a  *)
(* blank cell, read by read_csv as NaN) or "txt" (text that is neither a   *)
(* number nor one of read_csv's missing markers).  Numbers are integers:   *)
(* wavelengths in nm, absorbances in thousandths, column labels in         *)
(* thousandths of a nm (see ToFloat).                                      *)
(***************************************************************************)
EXTENDS Integers, Sequences, FiniteSets, TLC

VARIABLES file, pc, out

vars == <<file, pc, out>>

\* Largest number of data rows of an absorbance / Raman export.
MaxRows == 4

Num(v) == [k |-> "num", v |-> v]
NaN == [k |-> "nan", v |-> 0]
Txt == [k |-> "txt", v |-> 0]

Min(a, b) == IF a < b THEN a ELSE b
Max(a, b) == IF a > b THEN a ELSE b

\* pandas.isna of one cell.
IsNa(c) == c.k = "nan"

\* pd.to_numeric(cell, errors="coerce"): text degrades to NaN.
ToNumeric(c) == IF c.k = "num" THEN c ELSE NaN

\* The result before any loader has run.
NoResult == [ok |-> FALSE, err |-> "none", rows |-> << >>]

Raise(e) == [ok |-> FALSE, err |-> e, rows |-> << >>]

(***************************************************************************)
(* Absorbance and Raman exports: two columns, "Wavelength (nm)" and the    *)
(* value column ("Abs" or "Intensity (a.u.)").                             *)
(***************************************************************************)
WlCells == {Num(200), Num(205), Num(210), Txt}
ValKinds == {"num", "nan", "txt"}

\* The value cell of row r: numeric values are r tenths (0.1, 0.2, ...).
ValCell(kind, r) == IF kind = "num" THEN Num(100 * r) ELSE [k |-> kind, v |-> 0]

SpectrumTable(choice) ==
  [r \in DOMAIN choice |-> [wl |-> choice[r].wl, val |-> ValCell(choice[r].val, r)]]

SpectrumFiles ==
  { [kind |-> "spectrum", rows |-> SpectrumTable(c)] :
      c \in UNION { [1..n -> [wl : WlCells, val : ValKinds]] : n \in 0..MaxRows } }

\* nan_rows: the 0-based positions of the missing cells of the value column.
NanRows(rows) == {i \in 0..(Len(rows) - 1) : IsNa(rows[i + 1].val)}

SetMin(S) == CHOOSE x \in S : \A y \in S : x <= y

\* df.iloc[:stop]: a negative stop counts from the end of the table.
ILocStop(n, stop) == IF stop < 0 THEN Max(n + stop, 0) ELSE Min(stop, n)

\* The rows of a table tagged with their 1-based row number in the file.
Tagged(rows) ==
  [r \in 1..Len(rows) |-> [idx |-> rows[r].wl, val |-> rows[r].val, src |-> r]]

\* A faulty truncation: the slice stops at the first missing row, keeping the row before it.
TruncateKeepingBufferRow(rows) ==
  SubSeq(Tagged(rows), 1, ILocStop(Len(rows), SetMin(NanRows(rows))))

\* absorb_df.iloc[: (nan_rows[0] - 1)]
TruncateAtFirstNan(rows) ==
  SubSeq(Tagged(rows), 1, ILocStop(Len(rows), SetMin(NanRows(rows)) - 1))

\* A faulty truncation: without the guard, the end of the table is taken for the gap.
AbsorbanceTruncateUnguarded(rows) ==
  IF NanRows(rows) # {} THEN TruncateAtFirstNan(rows)
  ELSE SubSeq(Tagged(rows), 1, ILocStop(Len(rows), Len(rows) - 1))

\* Lines 106-108: truncation only if some cell of the value column is missing.
AbsorbanceTruncate(rows) ==
  IF NanRows(rows) # {} THEN TruncateAtFirstNan(rows) ELSE Tagged(rows)

\* df[df.columns].apply(pd.to_numeric, errors="coerce", axis=1)
CoerceRows(rs) ==
  [r \in 1..Len(rs) |->
     [idx |-> ToNumeric(rs[r].idx), val |-> ToNumeric(rs[r].val), src |-> rs[r].src]]

\* The order sort_index sorts by: ascending, NaN labels last.
IndexLeq(a, b) ==
  \/ IsNa(b)
  \/ ~IsNa(a) /\ ~IsNa(b) /\ a.v <= b.v

\* A missing sort: the frame is returned in file order, as load_water_raman does.
SortIndexSkipped(rs) == {rs}

\* DataFrame.sort_index(): every ordering of the rows that is ascending by
\* label; the default quicksort does not fix the order of equal labels.
SortIndexResults(rs) ==
  { [i \in 1..Len(rs) |-> rs[p[i]]] :
      p \in { q \in Permutations(1..Len(rs)) :
                \A i \in 1..(Len(rs) - 1) : IndexLeq(rs[q[i]].idx, rs[q[i + 1]].idx) } }

\* CaryEclipse.load_absorbance
LoadAbsorbance ==
  /\ pc = "start"
  /\ file.kind = "spectrum"
  /\ \E sorted \in SortIndexResults(CoerceRows(AbsorbanceTruncate(file.rows))) :
       out' = [ok |-> TRUE, err |-> "none", rows |-> sorted]
  /\ pc' = "absorbance"
  /\ UNCHANGED file

\* Lines 136-138: the first missing cell is looked up without a guard.
RamanTruncate(rows) ==
  IF NanRows(rows) = {} THEN Raise("IndexError")
  ELSE [ok |-> TRUE, err |-> "none", rows |-> TruncateAtFirstNan(rows)]

\* CaryEclipse.load_water_raman
LoadWaterRaman ==
  /\ pc = "start"
  /\ file.kind = "spectrum"
  /\ LET t == RamanTruncate(file.rows)
     IN out' = IF t.ok THEN [t EXCEPT !.rows = CoerceRows(t.rows)] ELSE t
  /\ pc' = "raman"
  /\ UNCHANGED file

InitSpectrum ==
  /\ file \in SpectrumFiles
  /\ pc = "start"
  /\ out = NoResult

NextSpectrum == LoadAbsorbance \/ LoadWaterRaman

SpecSpectrum == InitSpectrum /\ [][NextSpectrum]_vars


(***************************************************************************)
(* EEM exports.  A column name is a sequence of one-character strings, so  *)
(* that the substring test, the split and the float conversion load_eem    *)
(* applies to names are computed, not assumed.                             *)
(***************************************************************************)
\* Largest number of (axis, value) column pairs of an EEM export.
MaxPairs == 2
\* Largest number of data rows of an EEM export.
MaxEemRows == 3

DigitChars == <<"0", "1", "2", "3", "4", "5", "6", "7", "8", "9">>

IsDigit(ch) == \E d \in 1..Len(DigitChars) : DigitChars[d] = ch

DigitVal(ch) == (CHOOSE d \in 1..Len(DigitChars) : DigitChars[d] = ch) - 1

\* str(n) for n >= 0.
RECURSIVE Digits(_)
Digits(n) ==
  IF n < 10 THEN <<DigitChars[n + 1]>>
  ELSE Digits(n \div 10) \o <<DigitChars[(n % 10) + 1]>>

\* The number a sequence of digits denotes.
RECURSIVE IntVal(_)
IntVal(s) ==
  IF Len(s) = 0 THEN 0
  ELSE 10 * IntVal(SubSeq(s, 1, Len(s) - 1)) + DigitVal(s[Len(s)])

\* `sub in s` of two Python strings.
Contains(s, sub) ==
  \E i \in 1..(Len(s) - Len(sub) + 1) : SubSeq(s, i, i + Len(sub) - 1) = sub

\* A faulty split: split instead of rsplit, what follows the first "_".
SplitFirst(s) ==
  LET us == {i \in 1..Len(s) : s[i] = "_"}
  IN IF us = {} THEN s
     ELSE SubSeq(s, (CHOOSE i \in us : \A j \in us : i <= j) + 1, Len(s))

\* s.rsplit("_", 1)[-1]: what follows the last "_", or all of s without one.
RSplitLast(s) ==
  LET us == {i \in 1..Len(s) : s[i] = "_"}
  IN IF us = {} THEN s
     ELSE SubSeq(s, (CHOOSE i \in us : \A j \in us : j <= i) + 1, Len(s))

\* float(s) for names made of letters, digits, "_", ":", " " and ".": digits
\* with at most one ".", in thousandths; anything else is a ValueError.
ToFloat(s) ==
  LET dots == {i \in 1..Len(s) : s[i] = "."}
      wellFormed ==
        /\ \A i \in 1..Len(s) : IsDigit(s[i]) \/ s[i] = "."
        /\ Cardinality(dots) <= 1
        /\ \E i \in 1..Len(s) : IsDigit(s[i])
      dot == IF dots = {} THEN Len(s) + 1 ELSE CHOOSE i \in dots : TRUE
      frac == SubSeq(SubSeq(s, dot + 1, Len(s)) \o <<"0", "0", "0">>, 1, 3)
  IN IF wellFormed
     THEN [ok |-> TRUE, v |-> 1000 * IntVal(SubSeq(s, 1, dot - 1)) + IntVal(frac)]
     ELSE [ok |-> FALSE, v |-> 0]

\* The header cells the instrument, or the spec's example, writes.
TagLabel(w) == <<"S", "_", "E", "X", "_">> \o Digits(w)
PlainLabel(w) == <<"E", "X", "_">> \o Digits(w)
EmWL == <<"E", "m", "W", "L">>
Blank == << >>

\* The excitation wavelength of block j: distinct per block, or one repeated.
BlockWl(variant, j) == IF variant = "distinct" THEN 400 + 50 * (j - 1) ELSE 400

\* The header row of n blocks.  scheme "axis": the instrument's layout, the
\* label on the first column of each pair and the second left blank; scheme
\* "value": the layout EmWL, EX_<wl> with the label on the value column.
Header(scheme, variant, n) ==
  [c \in 1..(2 * n) |->
     LET j == (c + 1) \div 2
     IN IF scheme = "axis"
        THEN (IF c % 2 = 1 THEN TagLabel(BlockWl(variant, j)) ELSE Blank)
        ELSE (IF c % 2 = 1 THEN EmWL ELSE PlainLabel(BlockWl(variant, j)))]

\* A row is chosen by the kind of its first cell and of its other cells.
RowKinds ==
  ([first : {"num", "nan", "txt"}, rest : {"num", "nan"}])
    \cup {[first |-> "num", rest |-> "txt"]}

\* The cell at row r, column c: numbers are distinct per position.
EemCell(kind, r, c) == IF kind = "num" THEN Num(100 * c + r) ELSE [k |-> kind, v |-> 0]

\* The data rows; blankCols are the columns left blank in every row.  The
\* instrument ends every line with a separator, which read_csv reads as one
\* more column, blank throughout.
EemRows(kinds, n, blankCols, pad) ==
  [r \in DOMAIN kinds |->
     [c \in 1..(2 * n + (IF pad THEN 1 ELSE 0)) |->
        IF c \in blankCols \/ c > 2 * n THEN NaN
        ELSE EemCell(IF c = 1 THEN kinds[r].first ELSE kinds[r].rest, r, c)]]

EemFile(scheme, variant, n, kinds, blankCols) ==
  LET pad == scheme = "axis"
  IN [kind |-> "eem", pairs |-> n, scheme |-> scheme,
      wl |-> [j \in 1..n |-> BlockWl(variant, j)],
      header |-> Header(scheme, variant, n) \o (IF pad THEN <<Blank>> ELSE << >>),
      rows |-> EemRows(kinds, n, blankCols, pad)]

(***************************************************************************)
(* load_eem.  A data frame is [cols, index]: cols is the sequence of its   *)
(* columns [name, cells, pos], cells indexed by file row number and pos    *)
(* the column's position in the file; index is the sequence of the row     *)
(* numbers still in the frame.                                             *)
(***************************************************************************)
\* The name read_csv gives column c: "Unnamed: <c-1>" for a blank header
\* cell, and "<name>.<k>" for the k-th repetition of a name.
ReadCsvName(header, c) ==
  LET earlier == {d \in 1..(c - 1) : header[d] = header[c]}
  IN IF header[c] = Blank
     THEN <<"U", "n", "n", "a", "m", "e", "d", ":", " ">> \o Digits(c - 1)
     ELSE IF earlier = {} THEN header[c]
     ELSE header[c] \o <<".">> \o Digits(Cardinality(earlier))

\* pd.read_csv(filepath, skiprows=[1])
ReadCsv(f) ==
  [cols |-> [c \in 1..Len(f.header) |->
               [name |-> ReadCsvName(f.header, c),
                cells |-> [r \in 1..Len(f.rows) |-> f.rows[r][c]],
                pos |-> c]],
   index |-> [r \in 1..Len(f.rows) |-> r]]

\* df.dropna(how="all", axis=1): a column is kept if some row of the frame
\* has a cell in it that is not missing.
DropAllNanColumns(df) ==
  LET Keep(col) == \E i \in 1..Len(df.index) : ~IsNa(col.cells[df.index[i]])
  IN [df EXCEPT !.cols = SelectSeq(df.cols, Keep)]

\* df.dropna(how="all", axis=0)
DropAllNanRows(df) ==
  LET Keep(r) == \E c \in 1..Len(df.cols) : ~IsNa(df.cols[c].cells[r])
  IN [df EXCEPT !.index = SelectSeq(df.index, Keep)]

\* Lines 38-43: the table load_eem works on.
LoadedTable(f) == DropAllNanRows(DropAllNanColumns(ReadCsv(f)))

\* A faulty removal: the first column is coerced but no row is dropped.
KeepMetadataRows(df) == df

\* Lines 51-52: the first column is coerced cell by cell and the rows in
\* which it is then missing are dropped from the frame.
DropMetadataRows(df) ==
  LET Keep(r) == ~IsNa(ToNumeric(df.cols[1].cells[r]))
  IN [df EXCEPT !.index = SelectSeq(df.index, Keep)]

\* dict(zip(columns[1::2], columns[0::2])): each name at an odd 0-based
\* position mapped to the name just before it.
Zipped(columns) ==
  [name \in {columns[2 * i] : i \in 1..(Len(columns) \div 2)} |->
     columns[(CHOOSE i \in 1..(Len(columns) \div 2) : columns[2 * i] = name) * 2 - 1]]

\* Line 64: every column of the frame coerced to numeric.
CoerceColumns(df) ==
  [df EXCEPT !.cols =
     [c \in 1..Len(df.cols) |->
        [df.cols[c] EXCEPT !.cells = [r \in DOMAIN df.cols[c].cells |->
                                        ToNumeric(df.cols[c].cells[r])]]]]

\* Lines 77-78: the columns whose name contains "_EX_" are dropped.
DropExCols(df) ==
  LET Keep(col) == ~Contains(col.name, <<"_", "E", "X", "_">>)
  IN [df EXCEPT !.cols = SelectSeq(df.cols, Keep)]

\* Line 82: df.rename(columns=zipped)
Rename(df, zipped) ==
  [df EXCEPT !.cols =
     [c \in 1..Len(df.cols) |->
        [df.cols[c] EXCEPT !.name =
           IF df.cols[c].name \in DOMAIN zipped THEN zipped[df.cols[c].name]
           ELSE df.cols[c].name]]]

\* Lines 84-87: the label of a column, float of what follows the last "_".
ColumnLabel(name) == ToFloat(RSplitLast(name))

\* Lines 49-91, on the loaded table.
Reshape(df) ==
  LET columns == [c \in 1..Len(df.cols) |-> df.cols[c].name]
      numeric == CoerceColumns(DropMetadataRows(df))
      em_wls == [i \in 1..Len(numeric.index) |-> numeric.cols[1].cells[numeric.index[i]]]
      renamed == Rename(DropExCols(numeric), Zipped(columns))
      labels == [c \in 1..Len(renamed.cols) |-> ColumnLabel(renamed.cols[c].name)]
  IN IF \E c \in 1..Len(labels) : ~labels[c].ok
     THEN [ok |-> FALSE, err |-> "ValueError", index |-> << >>, columns |-> << >>,
           data |-> << >>, src |-> << >>]
     ELSE [ok |-> TRUE, err |-> "none",
           index |-> em_wls,
           columns |-> [c \in 1..Len(labels) |->
                          [label |-> labels[c].v, pos |-> renamed.cols[c].pos]],
           data |-> [i \in 1..Len(renamed.index) |->
                       [c \in 1..Len(renamed.cols) |->
                          renamed.cols[c].cells[renamed.index[i]]]],
           src |-> renamed.index]

\* The whole of load_eem: columns[0] of a frame without columns raises.
LoadEemResult(f) ==
  IF Len(LoadedTable(f).cols) = 0
  THEN [ok |-> FALSE, err |-> "IndexError", index |-> << >>, columns |-> << >>,
        data |-> << >>, src |-> << >>]
  ELSE Reshape(LoadedTable(f))

NoEem ==
  [ok |-> FALSE, err |-> "none", index |-> << >>, columns |-> << >>,
   data |-> << >>, src |-> << >>]

\* CaryEclipse.load_eem
LoadEem ==
  /\ pc = "start"
  /\ file.kind = "eem"
  /\ out' = LoadEemResult(file)
  /\ pc' = "eem"
  /\ UNCHANGED file

InitEem ==
  /\ \E scheme \in {"axis", "value"}, variant \in {"distinct", "repeated"},
        n \in 1..MaxPairs, m \in 0..MaxEemRows :
       \E kinds \in [1..m -> RowKinds], blankCols \in SUBSET (1..(2 * n)) :
         file = EemFile(scheme, variant, n, kinds, blankCols)
  /\ pc = "start"
  /\ out = NoEem

NextEem == LoadEem

SpecEem == InitEem /\ [][NextEem]_vars

(***************************************************************************)
(* Properties of load_absorbance and load_water_raman.                     *)
(***************************************************************************)
\* The file row numbers (1-based) of the rows of a result, in result order.
SrcOf(rs) == [i \in 1..Len(rs) |-> rs[i].src]

SrcSet(rs) == {rs[i].src : i \in 1..Len(rs)}

\* The 0-based position of the first missing cell of the value column.
FirstNan(rows) == SetMin(NanRows(rows))

\* C1: when the first missing Abs cell is at 0-based row i (every i >= 0),
\* load_absorbance keeps exactly the rows 0 .. i-2, that is the file rows
\* numbered 1 .. i-1 counting from 1, each once.
C1_KeepsPrefixBeforeBufferRow ==
  (pc = "absorbance" /\ NanRows(file.rows) # {}) =>
     /\ out.ok
     /\ SrcSet(out.rows) = 1..(FirstNan(file.rows) - 1)
     /\ Len(out.rows) = Cardinality(SrcSet(out.rows))

\* The table [(200, 0.1), (205, 0.2), (210, missing), (X, X)].
C2_Rows ==
  << [wl |-> Num(200), val |-> Num(100)],
     [wl |-> Num(205), val |-> Num(200)],
     [wl |-> Num(210), val |-> NaN],
     [wl |-> Txt, val |-> Txt] >>

\* C2 as stated: load_absorbance on C2_Rows returns exactly the two rows for
\* the wavelengths 200 and 205.
C2_ReturnsRows200And205 ==
  (pc = "absorbance" /\ file.rows = C2_Rows) =>
     /\ out.ok
     /\ out.rows = << [idx |-> Num(200), val |-> Num(100), src |-> 1],
                      [idx |-> Num(205), val |-> Num(200), src |-> 2] >>

\* C2 amended: load_absorbance on C2_Rows returns exactly the one row for
\* the wavelength 200: the row before the first missing cell is dropped too.
C2_ReturnsOnlyRow200 ==
  (pc = "absorbance" /\ file.rows = C2_Rows) =>
     /\ out.ok
     /\ out.rows = << [idx |-> Num(200), val |-> Num(100), src |-> 1] >>

C2_Witness == pc = "absorbance" /\ file.rows = C2_Rows /\ out.ok

\* C3: load_water_raman truncates as load_absorbance does for every value
\* column: it never raises, and it keeps the file rows load_absorbance keeps
\* (all of them when no cell of the value column is missing).
C3_RamanTruncatesAsAbsorbance ==
  pc = "raman" =>
     /\ out.ok
     /\ SrcOf(out.rows) = SrcOf(AbsorbanceTruncate(file.rows))

\* C6: when no Abs cell is missing, load_absorbance raises nothing and
\* returns every row of the table exactly once.
C6_NoMissingKeepsEveryRow ==
  (pc = "absorbance" /\ NanRows(file.rows) = {}) =>
     /\ out.ok
     /\ Len(out.rows) = Len(file.rows)
     /\ SrcSet(out.rows) = 1..Len(file.rows)

C6_Witness ==
  /\ pc = "absorbance"
  /\ NanRows(file.rows) = {}
  /\ Len(file.rows) >= 3
  /\ Len(out.rows) = Len(file.rows)

\* C9: the rows load_absorbance returns are in ascending order of
\* excitation_wavelength whatever the order of the file (a label that is
\* not a number sorts last, as sort_index places NaN), and they are the
\* rows that survive truncation, each once, with their own cells.
C9_SortedByWavelength ==
  pc = "absorbance" =>
     /\ \A i, j \in 1..Len(out.rows) :
          i < j =>
            /\ (out.rows[i].idx.k = "num" /\ out.rows[j].idx.k = "num")
                  => out.rows[i].idx.v <= out.rows[j].idx.v
            /\ out.rows[i].idx.k = "nan" => out.rows[j].idx.k = "nan"
     /\ SrcSet(out.rows) = SrcSet(AbsorbanceTruncate(file.rows))
     /\ Len(out.rows) = Len(AbsorbanceTruncate(file.rows))
     /\ \A i \in 1..Len(out.rows) :
          /\ out.rows[i].idx = ToNumeric(file.rows[out.rows[i].src].wl)
          /\ out.rows[i].val = ToNumeric(file.rows[out.rows[i].src].val)

\* A file whose surviving rows are out of order, and that are reordered.
C9_Witness ==
  /\ pc = "absorbance"
  /\ Len(out.rows) >= 3
  /\ \E i, j \in 1..Len(out.rows) :
       /\ i < j
       /\ out.rows[i].src > out.rows[j].src
       /\ out.rows[i].idx.k = "num" /\ out.rows[j].idx.k = "num"
       /\ out.rows[i].idx.v < out.rows[j].idx.v

(***************************************************************************)
(* Properties of load_eem.                                                 *)
(***************************************************************************)
\* The file has exactly one metadata row (text in its first cell), at
\* least one row with a number in every cell, and no column left blank.
OneMetadataRow(f) ==
  /\ Cardinality({r \in 1..Len(f.rows) : f.rows[r][1].k = "txt"}) = 1
  /\ \E r \in 1..Len(f.rows) : \A c \in 1..(2 * f.pairs) : f.rows[r][c].k = "num"

\* The header EmWL, EX_400, EmWL, EX_450.
C4_ValueLabelled(f) ==
  /\ f.pairs = 2
  /\ f.header = <<EmWL, PlainLabel(400), EmWL, PlainLabel(450)>>

\* The instrument's header S_EX_400, blank, S_EX_450, blank (and the blank
\* cell that ends the line).
C4_AxisLabelled(f) ==
  /\ f.pairs = 2
  /\ f.header = <<TagLabel(400), Blank, TagLabel(450), Blank, Blank>>

Labels(o) == [c \in 1..Len(o.columns) |-> o.columns[c].label]

C5_NonNumericAxisRaises ==
  (pc = "eem" /\ \A r \in 1..Len(file.rows) : file.rows[r][1].k # "num") => ~out.ok

\* The rows of the loaded table whose first cell is a number, in order.
NumericRows(df) ==
  LET IsNum(r) == df.cols[1].cells[r].k = "num"
  IN SelectSeq(df.index, IsNum)

\* C7: of the table load_eem works on (the file without its all-blank
\* columns and rows), the rows whose first cell is not a number are removed
\* from every column, the others are kept in their order, no row of the
\* result has a missing emission label, and the cells of a result row all
\* come from the file row its label comes from.
C7_MetadataRowsRemoved ==
  (pc = "eem" /\ out.ok) =>
     LET df == LoadedTable(file)
     IN /\ out.src = NumericRows(df)
        /\ Len(out.index) = Len(out.src)
        /\ Len(out.data) = Len(out.src)
        /\ \A i \in 1..Len(out.src) :
             /\ out.index[i].k = "num"
             /\ out.index[i] = file.rows[out.src[i]][df.cols[1].pos]
             /\ Len(out.data[i]) = Len(out.columns)
             /\ \A c \in 1..Len(out.columns) :
                  out.data[i][c] = ToNumeric(file.rows[out.src[i]][out.columns[c].pos])

\* Two rows kept around a metadata row that is dropped.
C7_Witness ==
  /\ pc = "eem"
  /\ out.ok
  /\ Len(out.columns) = 2
  /\ out.src = <<1, 3>>
  /\ file.rows[2][1].k = "txt"
  /\ file.rows[2][2].k = "num"

\* C8: for a file load_eem decodes, the emission axis is as long as the
\* matrix has rows, the excitation axis as long as it has columns, and that
\* is N, the number of column pairs of the file.
C8_ShapeMatchesPairs ==
  (pc = "eem" /\ out.ok) =>
     /\ Len(out.index) = Len(out.data)
     /\ \A i \in 1..Len(out.data) : Len(out.data[i]) = Len(out.columns)
     /\ Len(out.columns) = file.pairs

\* C10: column j of the matrix load_eem returns holds the cells of the j-th
\* value column of the file (its 2j-th column) and is labelled with the
\* excitation wavelength of block j, also when some column is blank
\* throughout.
C10_PositionalPairing ==
  (pc = "eem" /\ out.ok) =>
     /\ Len(out.columns) = file.pairs
     /\ \A j \in 1..Len(out.columns) :
          /\ out.columns[j].pos = 2 * j
          /\ out.columns[j].label = 1000 * file.wl[j]
          /\ \A i \in 1..Len(out.data) :
               out.data[i][j] = ToNumeric(file.rows[out.src[i]][2 * j])

=============================================================================
